---- MODULE Spec2Model ----
(***************************************************************************)
(* Venue booking scripts single.py and 2hours.py.                          *)
(*                                                                         *)
(* Process 0 is main of single.py; processes 1 and 2 are the two           *)
(* book_field_thread threads that main of 2hours.py starts.  A run is one  *)
(* of: single.py; 2hours.py; one call of book_field_thread on its own with *)
(* the arguments of thread 1 or of thread 2.  The server is the            *)
(* environment: every GET and POST response is chosen from a small set.    *)
(* Against the two threads of 2hours.py (50 attempts each) the server     *)
(* answers from a short list: transport failure, no free court, one free   *)
(* court, booking accepted or refused.  The other runs see every answer,   *)
(* with every list of up to MaxFields items.  Python objects are held by reference: a list of slots is a        *)
(* sequence of slot ids and Slot(id) is the dict the id refers to (the     *)
(* scripts never write to a slot dict).  Strings that the code inspects    *)
(* character-wise (BeginTime, preferred_time) are sequences of characters. *)
(***************************************************************************)
EXTENDS Integers, Sequences, FiniteSets, TLC

\* ---------------------------------------------------------------- bounds
\* longest resultdata list the server sends
MaxFields == 2
\* accepted bookings are counted up to MaxAccepted per process
MaxAccepted == 2

\* ------------------------------------------------------ program constants
max_retries == 3
retry_delay == 1
max_attempts == 50
dateadd == 7
VenueNo == "005"

None == 0

Single == 0
Threads == {1, 2}
Procs == {Single} \cup Threads

\* ------------------------------------------------------------- strings
T1600 == <<"1", "6", ":", "0", "0">>
T1700 == <<"1", "7", ":", "0", "0">>
T1800 == <<"1", "8", ":", "0", "0">>
T1900 == <<"1", "9", ":", "0", "0">>

\* str.startswith
startswith(s, prefix) ==
    /\ Len(prefix) <= Len(s)
    /\ SubSeq(s, 1, Len(prefix)) = prefix

\* ------------------------------------------------ slots the server knows
\* Each id is one decoded item of resultdata.  Items 1, 2 are free slots,
\* 3 is an occupied one, 4 is a second court free at 16:00 whose item lacks
\* FinalPrice, 5 lacks FieldState and 6 lacks FieldName.
SlotIds == 1..6

Slot(id) ==
    CASE id = 1 -> [FieldNo |-> "YMQ001", FieldTypeNo |-> "017", FieldName |-> "f1",
                    BeginTime |-> T1600, EndTime |-> T1700, FinalPrice |-> "10",
                    FieldState |-> "0"]
      [] id = 2 -> [FieldNo |-> "YMQ002", FieldTypeNo |-> "017", FieldName |-> "f2",
                    BeginTime |-> T1700, EndTime |-> T1800, FinalPrice |-> "10",
                    FieldState |-> "0"]
      [] id = 3 -> [FieldNo |-> "YMQ003", FieldTypeNo |-> "017", FieldName |-> "f3",
                    BeginTime |-> T1600, EndTime |-> T1700, FinalPrice |-> "10",
                    FieldState |-> "1"]
      [] id = 4 -> [FieldNo |-> "YMQ004", FieldTypeNo |-> "017", FieldName |-> "f4",
                    BeginTime |-> T1600, EndTime |-> T1700,
                    FieldState |-> "0"]
      [] id = 5 -> [FieldNo |-> "YMQ005", FieldTypeNo |-> "017", FieldName |-> "f5",
                    BeginTime |-> T1600, EndTime |-> T1700, FinalPrice |-> "10"]
      [] OTHER  -> [FieldNo |-> "YMQ006", FieldTypeNo |-> "017",
                    BeginTime |-> T1800, EndTime |-> T1900, FinalPrice |-> "10",
                    FieldState |-> "0"]

HasKey(id, k) == k \in DOMAIN Slot(id)

\* ------------------------------------------------------- main's settings
\* 2hours.py main: cookies_list, preferred_time_list, time_period_list are
\* zipped, so thread i gets the i-th element of each.  single.py: one
\* cookie set (index 0), "16:00", TimePeriod 1 from create_default.
cookies_list == [p \in Procs |-> p]
preferred_time_list == [p \in Procs |-> IF p = 2 THEN T1700 ELSE T1600]
time_period_list == [p \in Procs |-> IF p = 2 THEN 2 ELSE 1]

create_default(cookies, time_period) ==
    [dateadd |-> dateadd, TimePeriod |-> time_period, VenueNo |-> VenueNo,
     FieldTypeNo |-> "017", cookies |-> cookies]

\* ------------------------------------------------------ server responses
RECURSIVE SeqsUpTo(_, _)
SeqsUpTo(S, n) ==
    IF n = 0 THEN {<<>>}
    ELSE LET shorter == SeqsUpTo(S, n - 1)
         IN shorter \cup {Append(s, x) : s \in {q \in shorter : Len(q) = n - 1}, x \in S}

NoDup(s) == \A i, j \in 1..Len(s) : i # j => s[i] # s[j]

\* the resultdata lists the server sends in a run of the given kind
ResultDatas(run) ==
    IF run = "2hours" THEN {<<3>>, <<1>>}
    ELSE {s \in SeqsUpTo(SlotIds, MaxFields) : NoDup(s)}

\* what one availability GET can produce
\* kind "exc": requests raises a RequestException (connection error,
\* timeout, HTTP error status); "errorcode": a JSON answer whose errorcode
\* is not 0; "baddata": errorcode 0 with a resultdata that json.loads
\* rejects; "ok": errorcode 0 with the decoded resultdata.
GetResponses(run) ==
    {[kind |-> "exc"]}
    \cup (IF run = "2hours" THEN {} ELSE {[kind |-> "errorcode"], [kind |-> "baddata"]})
    \cup {[kind |-> "ok", resultdata |-> r] : r \in ResultDatas(run)}

\* what one booking POST can produce
PostResponses(run) ==
    {[kind |-> "exc"]}
    \cup (IF run = "2hours"
          THEN {[kind |-> "json", errorcode |-> 0, message |-> ""],
                [kind |-> "json", errorcode |-> 1, message |-> "full"]}
          ELSE {[kind |-> "json", errorcode |-> e, message |-> m] :
                   e \in {0, 1}, m \in {"", "full"}})

NoAnswer == [kind |-> "none"]

\* Whether the server has made the booking when the client receives resp to
\* its POST.  An answer with errorcode 0 and an empty message reports the
\* booking made; any other JSON answer reports it refused.  When requests
\* raises (timeout, connection reset, HTTP error status) the client cannot
\* tell: the POST may have been processed before the failure.  The 2hours
\* run keeps to failures that happen before the server is reached.
ServerAccepted(run, resp) ==
    IF resp.kind = "json" THEN {resp.errorcode = 0 /\ resp.message = ""}
    ELSE IF run = "2hours" THEN {FALSE}
    ELSE {TRUE, FALSE}

\* 2 ** attempt replaced by 1: the same delay after every failure
Pow2_constant(n) == 1

\* 2 ** attempt for the loop variable of get_available_fields (0, 1, 2)
Pow2(n) == IF n = 0 THEN 1 ELSE IF n = 1 THEN 2 ELSE 4

\* get_available_fields_pass with `attempt < max_retries` in lines 91, 99
get_available_fields_pass_extra_retry(resp, a) ==
    CASE resp.kind = "ok" ->
            IF \A i \in 1..Len(resp.resultdata) : HasKey(resp.resultdata[i], "FieldState")
            THEN [done |-> TRUE, sleep |-> 0,
                  result |-> SelectSeq(resp.resultdata, LAMBDA id : Slot(id).FieldState = "0")]
            ELSE [done |-> TRUE, sleep |-> 0, result |-> <<>>]
      [] resp.kind \in {"errorcode", "exc"} ->
            IF a < max_retries
            THEN [done |-> FALSE, sleep |-> retry_delay * Pow2(a), result |-> <<>>]
            ELSE [done |-> TRUE, sleep |-> 0, result |-> <<>>]
      [] OTHER -> [done |-> TRUE, sleep |-> 0, result |-> <<>>]

\* get_available_fields_pass without the FieldState test of lines 84-87:
\* every decoded item is returned
get_available_fields_pass_unfiltered(resp, a) ==
    CASE resp.kind = "ok" -> [done |-> TRUE, sleep |-> 0, result |-> resp.resultdata]
      [] resp.kind \in {"errorcode", "exc"} ->
            IF a < max_retries - 1
            THEN [done |-> FALSE, sleep |-> retry_delay * Pow2(a), result |-> <<>>]
            ELSE [done |-> TRUE, sleep |-> 0, result |-> <<>>]
      [] OTHER -> [done |-> TRUE, sleep |-> 0, result |-> <<>>]

\* get_available_fields_pass whose handlers of lines 104-110 retry like the
\* handler of RequestException
get_available_fields_pass_retries_all(resp, a) ==
    IF resp.kind = "ok"
       /\ \A i \in 1..Len(resp.resultdata) : HasKey(resp.resultdata[i], "FieldState")
    THEN [done |-> TRUE, sleep |-> 0,
          result |-> SelectSeq(resp.resultdata, LAMBDA id : Slot(id).FieldState = "0")]
    ELSE IF a < max_retries - 1
         THEN [done |-> FALSE, sleep |-> retry_delay * Pow2(a), result |-> <<>>]
         ELSE [done |-> TRUE, sleep |-> 0, result |-> <<>>]

\* ------------------------------------------------- get_available_fields
\* One pass of the for loop: the request has been answered with resp while
\* the loop variable is a.  done = the call returns result; otherwise the
\* call sleeps and goes on with a + 1.
get_available_fields_pass(resp, a) ==
    CASE resp.kind = "ok" ->
            IF \A i \in 1..Len(resp.resultdata) : HasKey(resp.resultdata[i], "FieldState")
            THEN [done |-> TRUE, sleep |-> 0,
                  result |-> SelectSeq(resp.resultdata, LAMBDA id : Slot(id).FieldState = "0")]
            ELSE [done |-> TRUE, sleep |-> 0, result |-> <<>>]
      [] resp.kind \in {"errorcode", "exc"} ->
            IF a < max_retries - 1
            THEN [done |-> FALSE, sleep |-> retry_delay * Pow2(a), result |-> <<>>]
            ELSE [done |-> TRUE, sleep |-> 0, result |-> <<>>]
      [] OTHER -> [done |-> TRUE, sleep |-> 0, result |-> <<>>]

\* ----------------------------------------------------------- select_field
\* the logger.info line reads FieldName, BeginTime and EndTime of the slot
Loggable(id) == HasKey(id, "FieldName") /\ HasKey(id, "BeginTime") /\ HasKey(id, "EndTime")

\* the fallback of lines 131-135 taking available_fields[-1]
first_available_takes_last(available_fields) ==
    IF Loggable(available_fields[Len(available_fields)])
    THEN available_fields[Len(available_fields)] ELSE None

first_available(available_fields) ==
    IF Loggable(available_fields[1]) THEN available_fields[1] ELSE None

\* find_preferred without the loop of lines 123-129: always the first slot
find_preferred_ignores_preference(available_fields, preferred_time, i) ==
    first_available(available_fields)

\* find_preferred scanning from the end of the list: the last matching slot
find_preferred_from_end(available_fields, preferred_time, i) ==
    LET m == {j \in 1..Len(available_fields) :
                 /\ HasKey(available_fields[j], "BeginTime")
                 /\ startswith(Slot(available_fields[j]).BeginTime, preferred_time)}
    IN IF m = {} THEN first_available(available_fields)
       ELSE LET j == CHOOSE j \in m : \A k \in m : k <= j
            IN IF Loggable(available_fields[j]) THEN available_fields[j] ELSE None

RECURSIVE find_preferred(_, _, _)
find_preferred(available_fields, preferred_time, i) ==
    IF i > Len(available_fields) THEN first_available(available_fields)
    ELSE IF ~HasKey(available_fields[i], "BeginTime") THEN None
    ELSE IF startswith(Slot(available_fields[i]).BeginTime, preferred_time)
         THEN IF Loggable(available_fields[i]) THEN available_fields[i] ELSE None
    ELSE find_preferred(available_fields, preferred_time, i + 1)

\* single.py: returns the slot (None on failure); the list is not touched
select_field_single(available_fields, preferred_time) ==
    IF available_fields = <<>> THEN None
    ELSE IF preferred_time # <<>> THEN find_preferred(available_fields, preferred_time, 1)
    ELSE first_available(available_fields)

Perms(n) == {f \in [1..n -> 1..n] : \A i, j \in 1..n : i # j => f[i] # f[j]}

\* a shuffle that draws with replacement: the first drawn slot everywhere
shuffle_with_replacement(s, perm) == [i \in 1..Len(s) |-> s[perm[1]]]

shuffle(s, perm) == [i \in 1..Len(s) |-> s[perm[i]]]

\* 2hours.py: random.shuffle reorders the caller's list in place, then the
\* same search runs on the shuffled list.  Result: <<list after the call,
\* returned slot>>.
select_field_2hours(available_fields, preferred_time, perm) ==
    IF available_fields = <<>> THEN <<available_fields, None>>
    ELSE LET shuffled == shuffle(available_fields, perm)
         IN <<shuffled, select_field_single(shuffled, preferred_time)>>

\* ------------------------------------------------------------- book_field
CheckdataKeys == {"FieldNo", "FieldTypeNo", "FieldName", "BeginTime", "EndTime", "FinalPrice"}

NoRequest == [OrderType |-> "none"]

\* the request book_field sends for the slot, NoRequest when it returns
\* False before sending (no slot, or a KeyError while building checkdata)
\* book_field_request filling "Endtime" from selected_field["BeginTime"]
book_field_request_begin_as_end(selected_field, config) ==
    IF selected_field = None THEN NoRequest
    ELSE IF ~(CheckdataKeys \subseteq DOMAIN Slot(selected_field)) THEN NoRequest
    ELSE [checkdata |-> <<[FieldNo |-> Slot(selected_field).FieldNo,
                           FieldTypeNo |-> Slot(selected_field).FieldTypeNo,
                           FieldName |-> Slot(selected_field).FieldName,
                           BeginTime |-> Slot(selected_field).BeginTime,
                           Endtime |-> Slot(selected_field).BeginTime,
                           Price |-> Slot(selected_field).FinalPrice,
                           DateAdd |-> config.dateadd]>>,
          VenueNo |-> config.VenueNo,
          OrderType |-> "Field",
          cookies |-> config.cookies]

book_field_request(selected_field, config) ==
    IF selected_field = None THEN NoRequest
    ELSE IF ~(CheckdataKeys \subseteq DOMAIN Slot(selected_field)) THEN NoRequest
    ELSE [checkdata |-> <<[FieldNo |-> Slot(selected_field).FieldNo,
                           FieldTypeNo |-> Slot(selected_field).FieldTypeNo,
                           FieldName |-> Slot(selected_field).FieldName,
                           BeginTime |-> Slot(selected_field).BeginTime,
                           Endtime |-> Slot(selected_field).EndTime,
                           Price |-> Slot(selected_field).FinalPrice,
                           DateAdd |-> config.dateadd]>>,
          VenueNo |-> config.VenueNo,
          OrderType |-> "Field",
          cookies |-> config.cookies]

\* book_field_result that does not look at the message (line 182)
book_field_result_ignores_message(resp) ==
    IF resp.kind = "json" THEN resp.errorcode = 0
    ELSE FALSE

\* the value book_field returns for the response to its POST
book_field_result(resp) ==
    IF resp.kind = "json" THEN resp.errorcode = 0 /\ resp.message = ""
    ELSE FALSE

\* ------------------------------------------------------------------ state
VARIABLES
    script,            \* what runs: "single", "2hours" or "thread"
    mainpc,            \* position of main
    pc,                \* position of process p
    config,            \* booking_system.config of process p
    preferred_time,    \* preferred_time of process p
    attempt,           \* book_field_thread: attempt
    gaf_attempt,       \* get_available_fields: loop variable attempt
    available_fields,  \* the caller's list available_fields
    selected_field,    \* the caller's selected_field
    success,           \* the caller's success (False until assigned)
    request,           \* the POST of process p that is in flight, or NoRequest
    answer,            \* the response the latest step of p received, or NoAnswer
    success_count,     \* success_count[0], shared by the two threads
    loaded,            \* value of success_count[0] read by += of thread p
    slept,             \* seconds process p slept in its latest step
    report,            \* what main logged last about the outcome
    calls,             \* number of get_available_fields calls of p so far
    gets,              \* GET requests issued so far by the call of p in progress
    posts,             \* POST requests issued in the current attempt of p
    accepted           \* server side: bookings accepted from p's POSTs so far

locals == <<pc, config, preferred_time, attempt, gaf_attempt, available_fields,
            selected_field, success, request, answer, loaded, slept>>
counters == <<calls, gets, posts>>
vars == <<script, mainpc, locals, success_count, report, counters, accepted>>

Init ==
    /\ script \in {"single", "2hours", "thread"}
    /\ mainpc = "start"
    /\ pc = [p \in Procs |-> "unstarted"]
    /\ config = [p \in Procs |-> None]
    /\ preferred_time = [p \in Procs |-> <<>>]
    /\ attempt = [p \in Procs |-> 0]
    /\ gaf_attempt = [p \in Procs |-> 0]
    /\ available_fields = [p \in Procs |-> <<>>]
    /\ selected_field = [p \in Procs |-> None]
    /\ success = [p \in Procs |-> FALSE]
    /\ request = [p \in Procs |-> NoRequest]
    /\ answer = [p \in Procs |-> NoAnswer]
    /\ success_count = 0
    /\ loaded = [p \in Procs |-> 0]
    /\ slept = [p \in Procs |-> 0]
    /\ report = "none"
    /\ calls = [p \in Procs |-> 0]
    /\ gets = [p \in Procs |-> 0]
    /\ posts = [p \in Procs |-> 0]
    /\ accepted = [p \in Procs |-> 0]

\* ------------------------------------------------------- shared fragments
\* entry of get_available_fields
EnterGet(p) ==
    /\ gaf_attempt' = [gaf_attempt EXCEPT ![p] = 0]
    /\ calls' = [calls EXCEPT ![p] = @ + 1]
    /\ gets' = [gets EXCEPT ![p] = 0]

\* NextAttempt without line 246, attempt += 1
NextAttempt_no_increment(p, s) ==
    IF attempt[p] < max_attempts
    THEN /\ pc' = [pc EXCEPT ![p] = "get"]
         /\ slept' = [slept EXCEPT ![p] = s]
         /\ posts' = [posts EXCEPT ![p] = 0]
         /\ available_fields' = [available_fields EXCEPT ![p] = <<>>]
         /\ selected_field' = [selected_field EXCEPT ![p] = None]
         /\ success' = [success EXCEPT ![p] = FALSE]
         /\ EnterGet(p)
         /\ UNCHANGED attempt
    ELSE /\ pc' = [pc EXCEPT ![p] = "done"]
         /\ slept' = [slept EXCEPT ![p] = s]
         /\ UNCHANGED <<attempt, gaf_attempt, counters, available_fields,
                        selected_field, success>>

\* book_field_thread: the next iteration of `while attempt < max_attempts`
\* after a sleep of s seconds; the body starts with the availability call.
\* The locals of the previous iteration are dead here (each is assigned in
\* the new iteration before it is read), so they restart from their
\* initial values.
NextAttempt(p, s) ==
    IF attempt[p] < max_attempts
    THEN /\ attempt' = [attempt EXCEPT ![p] = @ + 1]
         /\ pc' = [pc EXCEPT ![p] = "get"]
         /\ slept' = [slept EXCEPT ![p] = s]
         /\ posts' = [posts EXCEPT ![p] = 0]
         /\ available_fields' = [available_fields EXCEPT ![p] = <<>>]
         /\ selected_field' = [selected_field EXCEPT ![p] = None]
         /\ success' = [success EXCEPT ![p] = FALSE]
         /\ EnterGet(p)
    ELSE /\ pc' = [pc EXCEPT ![p] = "done"]
         /\ slept' = [slept EXCEPT ![p] = s]
         /\ UNCHANGED <<attempt, gaf_attempt, counters, available_fields,
                        selected_field, success>>

\* FailedAttempt without the time.sleep(1) of lines 255, 265, 282
FailedAttempt_short_sleep(p, avail, sel, succ) ==
    IF attempt[p] < max_attempts
    THEN NextAttempt(p, 0)
    ELSE /\ pc' = [pc EXCEPT ![p] = "done"]
         /\ slept' = [slept EXCEPT ![p] = 0]
         /\ available_fields' = [available_fields EXCEPT ![p] = avail]
         /\ selected_field' = [selected_field EXCEPT ![p] = sel]
         /\ success' = [success EXCEPT ![p] = succ]
         /\ UNCHANGED <<attempt, gaf_attempt, counters>>

\* book_field_thread: a failed step of the attempt, which left the locals
\* at avail, sel, succ: sleep 1 s and continue, or leave the loop when this
\* was the last attempt
FailedAttempt(p, avail, sel, succ) ==
    IF attempt[p] < max_attempts
    THEN NextAttempt(p, 1)
    ELSE /\ pc' = [pc EXCEPT ![p] = "done"]
         /\ slept' = [slept EXCEPT ![p] = 0]
         /\ available_fields' = [available_fields EXCEPT ![p] = avail]
         /\ selected_field' = [selected_field EXCEPT ![p] = sel]
         /\ success' = [success EXCEPT ![p] = succ]
         /\ UNCHANGED <<attempt, gaf_attempt, counters>>

\* ------------------------------------------------- get_available_fields
\* One GET of the call in progress and what the loop does with the answer:
\* return the filtered list, return [], or sleep and go round again.
GetPass(p) ==
    /\ pc[p] = "get"
    /\ \E resp \in GetResponses(script) :
         LET o == get_available_fields_pass(resp, gaf_attempt[p])
         IN /\ slept' = [slept EXCEPT ![p] = o.sleep]
            /\ answer' = [answer EXCEPT ![p] = resp]
            /\ IF o.done
               THEN \* return: the frame of the call is gone
                    /\ available_fields' = [available_fields EXCEPT ![p] = o.result]
                    /\ pc' = [pc EXCEPT ![p] = "fetched"]
                    /\ gaf_attempt' = [gaf_attempt EXCEPT ![p] = 0]
                    /\ gets' = [gets EXCEPT ![p] = 0]
               ELSE /\ gaf_attempt' = [gaf_attempt EXCEPT ![p] = @ + 1]
                    /\ gets' = [gets EXCEPT ![p] = @ + 1]
                    /\ UNCHANGED <<available_fields, pc>>
    /\ UNCHANGED <<script, mainpc, config, preferred_time, attempt, selected_field,
                   success, request, success_count, loaded, report, calls, posts>>
    /\ UNCHANGED accepted

\* ------------------------------------------------------ single.py: main
SingleStart ==
    /\ script = "single"
    /\ mainpc = "start"
    /\ mainpc' = "running"
    /\ config' = [config EXCEPT ![Single] =
                    create_default(cookies_list[Single], time_period_list[Single])]
    /\ pc' = [pc EXCEPT ![Single] = "get"]
    /\ EnterGet(Single)
    /\ UNCHANGED <<script, preferred_time, attempt, available_fields, selected_field,
                   success, request, success_count, loaded, slept, report, posts>>
    /\ answer' = [answer EXCEPT ![Single] = NoAnswer]
    /\ UNCHANGED accepted

\* SingleSelect without lines 223-225, the check of select_field's result
SingleSelect_unchecked ==
    /\ pc[Single] = "fetched"
    /\ IF available_fields[Single] = <<>>
       THEN /\ report' = "no_fields"
            /\ pc' = [pc EXCEPT ![Single] = "done"]
            /\ mainpc' = "done"
            /\ UNCHANGED <<preferred_time, selected_field>>
       ELSE LET sel == select_field_single(available_fields[Single], preferred_time_list[Single])
            IN /\ preferred_time' = [preferred_time EXCEPT ![Single] = preferred_time_list[Single]]
               /\ selected_field' = [selected_field EXCEPT ![Single] = sel]
               /\ pc' = [pc EXCEPT ![Single] = "book"]
               /\ UNCHANGED <<report, mainpc>>
    /\ slept' = [slept EXCEPT ![Single] = 0]
    /\ UNCHANGED <<script, config, attempt, gaf_attempt, available_fields, success,
                   request, success_count, loaded, counters>>
    /\ answer' = [answer EXCEPT ![Single] = NoAnswer]
    /\ UNCHANGED accepted

\* lines 215-225: the check of the fetched list, then select_field
SingleSelect ==
    /\ pc[Single] = "fetched"
    /\ IF available_fields[Single] = <<>>
       THEN /\ report' = "no_fields"
            /\ pc' = [pc EXCEPT ![Single] = "done"]
            /\ mainpc' = "done"
            /\ UNCHANGED <<preferred_time, selected_field>>
       ELSE LET sel == select_field_single(available_fields[Single], preferred_time_list[Single])
            IN /\ preferred_time' = [preferred_time EXCEPT ![Single] = preferred_time_list[Single]]
               /\ selected_field' = [selected_field EXCEPT ![Single] = sel]
               /\ IF sel = None
                  THEN /\ report' = "select_failed"
                       /\ pc' = [pc EXCEPT ![Single] = "done"]
                       /\ mainpc' = "done"
                  ELSE /\ pc' = [pc EXCEPT ![Single] = "book"]
                       /\ UNCHANGED <<report, mainpc>>
    /\ slept' = [slept EXCEPT ![Single] = 0]
    /\ UNCHANGED <<script, config, attempt, gaf_attempt, available_fields, success,
                   request, success_count, loaded, counters>>
    /\ answer' = [answer EXCEPT ![Single] = NoAnswer]
    /\ UNCHANGED accepted

\* line 228, book_field up to the POST
SingleBook ==
    /\ pc[Single] = "book"
    /\ LET req == book_field_request(selected_field[Single], config[Single])
       IN IF req = NoRequest
          THEN /\ success' = [success EXCEPT ![Single] = FALSE]
               /\ report' = "booking_failed"
               /\ pc' = [pc EXCEPT ![Single] = "done"]
               /\ mainpc' = "done"
               /\ UNCHANGED <<request, posts>>
          ELSE /\ request' = [request EXCEPT ![Single] = req]
               /\ posts' = [posts EXCEPT ![Single] = @ + 1]
               /\ pc' = [pc EXCEPT ![Single] = "posting"]
               /\ UNCHANGED <<success, report, mainpc>>
    /\ UNCHANGED <<script, config, preferred_time, attempt, gaf_attempt, available_fields,
                   selected_field, success_count, loaded, slept, calls, gets>>
    /\ answer' = [answer EXCEPT ![Single] = NoAnswer]
    /\ UNCHANGED accepted

\* the answer to the POST and the return of book_field
BookResponse(p) ==
    /\ pc[p] = "posting"
    /\ \E resp \in PostResponses(script) :
         /\ success' = [success EXCEPT ![p] = book_field_result(resp)]
         /\ answer' = [answer EXCEPT ![p] = resp]
         /\ \E made \in ServerAccepted(script, resp) :
               accepted' = [accepted EXCEPT ![p] =
                               IF made /\ @ < MaxAccepted THEN @ + 1 ELSE @]
    /\ request' = [request EXCEPT ![p] = NoRequest]
    /\ pc' = [pc EXCEPT ![p] = "booked"]
    /\ slept' = [slept EXCEPT ![p] = 0]
    /\ UNCHANGED <<script, mainpc, config, preferred_time, attempt, gaf_attempt,
                   available_fields, selected_field, success_count, loaded, report,
                   counters>>

\* SingleAfterBook that calls get_available_fields a second time after a
\* failed booking
SingleAfterBook_retries_once ==
    /\ pc[Single] = "booked"
    /\ IF success[Single] \/ calls[Single] > 1
       THEN /\ report' = IF success[Single] THEN "finished" ELSE "booking_failed"
            /\ pc' = [pc EXCEPT ![Single] = "done"]
            /\ mainpc' = "done"
            /\ UNCHANGED <<gaf_attempt, counters>>
       ELSE /\ pc' = [pc EXCEPT ![Single] = "get"]
            /\ EnterGet(Single)
            /\ UNCHANGED <<report, mainpc, posts>>
    /\ answer' = [answer EXCEPT ![Single] = NoAnswer]
    /\ UNCHANGED <<script, config, preferred_time, attempt, available_fields,
                   selected_field, success, request, success_count, loaded, slept>>
    /\ UNCHANGED accepted

\* lines 230-233
SingleAfterBook ==
    /\ pc[Single] = "booked"
    /\ report' = IF success[Single] THEN "finished" ELSE "booking_failed"
    /\ pc' = [pc EXCEPT ![Single] = "done"]
    /\ mainpc' = "done"
    /\ answer' = [answer EXCEPT ![Single] = NoAnswer]
    /\ UNCHANGED <<script, config, preferred_time, attempt, gaf_attempt, available_fields,
                   selected_field, success, request, success_count, loaded, slept,
                   counters>>
    /\ UNCHANGED accepted

\* ---------------------------------------------- 2hours.py: book_field_thread
\* lines 237-246: config, booking system, attempt = 0, first loop entry
ThreadBegin(t) ==
    /\ pc[t] = "ready"
    /\ config' = [config EXCEPT ![t] = create_default(cookies_list[t], time_period_list[t])]
    /\ NextAttempt(t, 0)
    /\ UNCHANGED <<script, mainpc, preferred_time, request, success_count, loaded, report>>
    /\ answer' = [answer EXCEPT ![t] = NoAnswer]
    /\ UNCHANGED accepted

\* lines 252-271: the check of the fetched list, select_field, its check
ThreadSelect(t) ==
    /\ pc[t] = "fetched"
    /\ IF available_fields[t] = <<>>
       THEN FailedAttempt(t, available_fields[t], selected_field[t], success[t])
       ELSE \E perm \in Perms(Len(available_fields[t])) :
              LET r == select_field_2hours(available_fields[t], preferred_time[t], perm)
              IN IF r[2] = None
                 THEN FailedAttempt(t, r[1], r[2], success[t])
                 ELSE /\ available_fields' = [available_fields EXCEPT ![t] = r[1]]
                      /\ selected_field' = [selected_field EXCEPT ![t] = r[2]]
                      /\ pc' = [pc EXCEPT ![t] = "book"]
                      /\ slept' = [slept EXCEPT ![t] = 0]
                      /\ UNCHANGED <<attempt, gaf_attempt, counters, success>>
    /\ UNCHANGED <<script, mainpc, config, preferred_time, request,
                   success_count, loaded, report>>
    /\ answer' = [answer EXCEPT ![t] = NoAnswer]
    /\ UNCHANGED accepted

\* line 274, book_field up to the POST
ThreadBook(t) ==
    /\ pc[t] = "book"
    /\ LET req == book_field_request(selected_field[t], config[t])
       IN IF req = NoRequest
          THEN /\ FailedAttempt(t, available_fields[t], selected_field[t], FALSE)
               /\ UNCHANGED request
          ELSE /\ request' = [request EXCEPT ![t] = req]
               /\ posts' = [posts EXCEPT ![t] = @ + 1]
               /\ pc' = [pc EXCEPT ![t] = "posting"]
               /\ slept' = [slept EXCEPT ![t] = 0]
               /\ UNCHANGED <<success, attempt, gaf_attempt, calls, gets,
                              available_fields, selected_field>>
    /\ UNCHANGED <<script, mainpc, config, preferred_time, success_count, loaded, report>>
    /\ answer' = [answer EXCEPT ![t] = NoAnswer]
    /\ UNCHANGED accepted

\* ThreadAfterBook that stops retrying once the shared counter is not 0
ThreadAfterBook_watches_counter(t) ==
    /\ pc[t] = "booked"
    /\ IF success[t]
       THEN /\ pc' = [pc EXCEPT ![t] = "load"]
            /\ slept' = [slept EXCEPT ![t] = 0]
            /\ UNCHANGED <<attempt, gaf_attempt, counters, available_fields,
                           selected_field, success>>
       ELSE IF success_count > 0
            THEN /\ pc' = [pc EXCEPT ![t] = "done"]
                 /\ slept' = [slept EXCEPT ![t] = 0]
                 /\ UNCHANGED <<attempt, gaf_attempt, counters, available_fields,
                                selected_field, success>>
            ELSE FailedAttempt(t, available_fields[t], selected_field[t], FALSE)
    /\ answer' = [answer EXCEPT ![t] = NoAnswer]
    /\ UNCHANGED <<script, mainpc, config, preferred_time, request, success_count,
                   loaded, report>>
    /\ UNCHANGED accepted

\* ThreadAfterBook that leaves the loop after a failed booking
ThreadAfterBook_gives_up(t) ==
    /\ pc[t] = "booked"
    /\ IF success[t]
       THEN /\ pc' = [pc EXCEPT ![t] = "load"]
       ELSE /\ pc' = [pc EXCEPT ![t] = "done"]
    /\ slept' = [slept EXCEPT ![t] = 0]
    /\ answer' = [answer EXCEPT ![t] = NoAnswer]
    /\ UNCHANGED <<script, mainpc, config, preferred_time, request, success_count,
                   loaded, report, attempt, gaf_attempt, counters, available_fields,
                   selected_field, success>>
    /\ UNCHANGED accepted

\* ThreadAfterBook that leaves the loop once the server holds a booking made
\* from one of its POSTs, whatever book_field returned
ThreadAfterBook_asks_server(t) ==
    /\ pc[t] = "booked"
    /\ IF success[t]
       THEN /\ pc' = [pc EXCEPT ![t] = "load"]
            /\ slept' = [slept EXCEPT ![t] = 0]
            /\ UNCHANGED <<attempt, gaf_attempt, counters, available_fields,
                           selected_field, success>>
       ELSE IF accepted[t] > 0
            THEN /\ pc' = [pc EXCEPT ![t] = "done"]
                 /\ slept' = [slept EXCEPT ![t] = 0]
                 /\ UNCHANGED <<attempt, gaf_attempt, counters, available_fields,
                                selected_field, success>>
            ELSE FailedAttempt(t, available_fields[t], selected_field[t], FALSE)
    /\ answer' = [answer EXCEPT ![t] = NoAnswer]
    /\ UNCHANGED <<script, mainpc, config, preferred_time, request, success_count,
                   loaded, report>>
    /\ UNCHANGED accepted

\* lines 276-284
ThreadAfterBook(t) ==
    /\ pc[t] = "booked"
    /\ IF success[t]
       THEN /\ pc' = [pc EXCEPT ![t] = "load"]
            /\ slept' = [slept EXCEPT ![t] = 0]
            /\ UNCHANGED <<attempt, gaf_attempt, counters, available_fields,
                           selected_field, success>>
       ELSE FailedAttempt(t, available_fields[t], selected_field[t], FALSE)
    /\ answer' = [answer EXCEPT ![t] = NoAnswer]
    /\ UNCHANGED <<script, mainpc, config, preferred_time, request, success_count,
                   loaded, report>>
    /\ UNCHANGED accepted

\* line 278, success_count[0] += 1: the read of success_count[0] ...
ThreadLoad(t) ==
    /\ pc[t] = "load"
    /\ loaded' = [loaded EXCEPT ![t] = success_count]
    /\ pc' = [pc EXCEPT ![t] = "store"]
    /\ UNCHANGED <<script, mainpc, config, preferred_time, attempt, gaf_attempt,
                   available_fields, selected_field, success, request, success_count,
                   slept, report, counters>>
    /\ answer' = [answer EXCEPT ![t] = NoAnswer]
    /\ UNCHANGED accepted

\* ThreadStore without the break of line 279: the loop goes round again
ThreadStore_without_break(t) ==
    /\ pc[t] = "store"
    /\ success_count' = loaded[t] + 1
    /\ NextAttempt(t, 0)
    /\ UNCHANGED <<script, mainpc, config, preferred_time, request, loaded, report>>
    /\ answer' = [answer EXCEPT ![t] = NoAnswer]
    /\ UNCHANGED accepted

\* ... and the write of the incremented value, then break
ThreadStore(t) ==
    /\ pc[t] = "store"
    /\ success_count' = loaded[t] + 1
    /\ pc' = [pc EXCEPT ![t] = "done"]
    /\ UNCHANGED <<script, mainpc, config, preferred_time, attempt, gaf_attempt,
                   available_fields, selected_field, success, request, loaded,
                   slept, report, counters>>
    /\ answer' = [answer EXCEPT ![t] = NoAnswer]
    /\ UNCHANGED accepted

\* ------------------------------------------------------ 2hours.py: main
\* lines 319-322: one pass of the loop over the zipped lists
MainStartThread(t) ==
    /\ script = "2hours"
    /\ \/ t = 1 /\ mainpc = "start"
       \/ t = 2 /\ mainpc = "start2"
    /\ pc' = [pc EXCEPT ![t] = "ready"]
    /\ preferred_time' = [preferred_time EXCEPT ![t] = preferred_time_list[t]]
    /\ mainpc' = IF t = 1 THEN "start2" ELSE "join1"
    /\ UNCHANGED <<script, config, attempt, gaf_attempt, available_fields, selected_field,
                   success, request, success_count, loaded, slept, report, counters>>
    /\ UNCHANGED answer
    /\ UNCHANGED accepted

\* lines 324-325: t.join() returns once the thread has ended
MainJoin(t) ==
    /\ \/ t = 1 /\ mainpc = "join1"
       \/ t = 2 /\ mainpc = "join2"
    /\ pc[t] = "done"
    /\ mainpc' = IF t = 1 THEN "join2" ELSE "report"
    /\ UNCHANGED <<script, locals, success_count, report, counters>>
    /\ UNCHANGED accepted

\* lines 327-330
MainReport ==
    /\ mainpc = "report"
    /\ report' = IF success_count = Cardinality(Threads) THEN "both" ELSE "not_both"
    /\ mainpc' = "done"
    /\ UNCHANGED <<script, locals, success_count, counters>>
    /\ UNCHANGED accepted

\* ------------------------------------- book_field_thread called on its own
CallThread(t) ==
    /\ script = "thread"
    /\ mainpc = "start"
    /\ pc' = [pc EXCEPT ![t] = "ready"]
    /\ preferred_time' = [preferred_time EXCEPT ![t] = preferred_time_list[t]]
    /\ mainpc' = "called"
    /\ UNCHANGED <<script, config, attempt, gaf_attempt, available_fields, selected_field,
                   success, request, success_count, loaded, slept, report, counters>>
    /\ UNCHANGED answer
    /\ UNCHANGED accepted

\* -------------------------------------------------------- specification
Next ==
    \/ SingleStart
    \/ SingleSelect
    \/ SingleBook
    \/ SingleAfterBook
    \/ \E p \in Procs : GetPass(p)
    \/ \E p \in Procs : BookResponse(p)
    \/ \E t \in Threads : MainStartThread(t)
    \/ \E t \in Threads : CallThread(t)
    \/ \E t \in Threads : ThreadBegin(t)
    \/ \E t \in Threads : ThreadSelect(t)
    \/ \E t \in Threads : ThreadBook(t)
    \/ \E t \in Threads : ThreadAfterBook(t)
    \/ \E t \in Threads : ThreadLoad(t)
    \/ \E t \in Threads : ThreadStore(t)
    \/ \E t \in Threads : MainJoin(t)
    \/ MainReport

Spec == Init /\ [][Next]_vars

TypeOK ==
    /\ script \in {"single", "2hours", "thread"}
    /\ success_count \in 0..2
    /\ \A p \in Procs : attempt[p] \in 0..max_attempts


\* ------------------------------------------------------------ progress
\* What is left to do, as a number that every step lowers.
ProcRank(p) ==
    CASE pc[p] = "unstarted" -> 8 * max_attempts + 13
      [] pc[p] = "ready" -> 8 * max_attempts + 12
      [] pc[p] = "get" -> 8 * (max_attempts - attempt[p]) + 10 - gaf_attempt[p]
      [] pc[p] = "fetched" -> 8 * (max_attempts - attempt[p]) + 7
      [] pc[p] = "book" -> 8 * (max_attempts - attempt[p]) + 6
      [] pc[p] = "posting" -> 8 * (max_attempts - attempt[p]) + 5
      [] pc[p] = "booked" -> 8 * (max_attempts - attempt[p]) + 4
      [] pc[p] = "load" -> 2
      [] pc[p] = "store" -> 1
      [] OTHER -> 0

MainRank ==
    CASE mainpc = "start" -> 5
      [] mainpc = "start2" -> 4
      [] mainpc = "join1" -> 3
      [] mainpc = "join2" -> 2
      [] mainpc \in {"report", "running", "called"} -> 1
      [] OTHER -> 0

Measure == MainRank + ProcRank(Single) + ProcRank(1) + ProcRank(2)

ThreadStep(t) ==
    \/ ThreadBegin(t)
    \/ GetPass(t)
    \/ ThreadSelect(t)
    \/ ThreadBook(t)
    \/ BookResponse(t)
    \/ ThreadAfterBook(t)
    \/ ThreadLoad(t)
    \/ ThreadStore(t)

MainStep == \E t \in Threads : MainStartThread(t) \/ MainJoin(t) \/ MainReport

\* ---------------------------------------------------------------- claims
\* C1: one book_field_thread makes at most 50 attempts and then ends: at
\* most 50 calls of get_available_fields, each of at most 3 GET requests
\* (so at most 150), at most one POST per attempt (so at most 50); a thread
\* that has started and not ended can always take a step, main can always
\* go on once both threads have ended, and every step lowers Measure, so
\* no run goes on for ever.
C1_BoundedAttempts ==
    /\ [](\A t \in Threads :
            /\ attempt[t] <= 50
            /\ calls[t] <= 50
            /\ calls[t] = attempt[t]
            /\ gets[t] + (IF pc[t] = "get" THEN 1 ELSE 0) <= 3
            /\ 3 * calls[t] <= 150
            /\ posts[t] <= 1
            /\ (pc[t] \notin {"unstarted", "done"} => ENABLED ThreadStep(t)))
    /\ []((script = "2hours" /\ pc[1] = "done" /\ pc[2] = "done" /\ mainpc # "done")
            => ENABLED MainStep)
    /\ [](Measure >= 0)
    /\ [][Measure' < Measure]_vars

C1_Witness ==
    /\ script = "2hours"
    /\ mainpc = "done"
    /\ \E t \in Threads : attempt[t] = 50 /\ calls[t] = 50 /\ pc[t] = "done" /\ ~success[t]


Elements(s) == {s[i] : i \in 1..Len(s)}

\* C2: in every attempt the steps come in the order fetch, select, submit:
\* a process is about to submit or has a POST in flight only with a
\* non-empty fetched list and a selected slot of that list, both of the
\* same attempt; a POST is issued only by the step after a successful
\* selection; after an empty fetch the next step issues no POST and does
\* not reach the booking step.
C2_FetchSelectSubmit ==
    /\ [](\A p \in Procs :
            /\ pc[p] \in {"book", "posting"} =>
                 /\ available_fields[p] # <<>>
                 /\ selected_field[p] # None
                 /\ selected_field[p] \in Elements(available_fields[p])
            /\ request[p] # NoRequest => pc[p] = "posting"
            /\ posts[p] > 0 => selected_field[p] # None /\ available_fields[p] # <<>>)
    /\ [][\A p \in Procs :
            /\ (pc'[p] = "fetched" /\ pc[p] # "fetched") => pc[p] = "get"
            /\ (pc'[p] = "book" /\ pc[p] # "book") =>
                 pc[p] = "fetched" /\ available_fields[p] # <<>>
            /\ (pc'[p] = "posting" /\ pc[p] # "posting") => pc[p] = "book"
            /\ (posts'[p] > posts[p] \/ (request'[p] # NoRequest /\ request[p] = NoRequest)) =>
                 /\ pc[p] = "book"
                 /\ selected_field[p] # None
                 /\ request'[p] = book_field_request(selected_field[p], config[p])
            /\ pc'[p] \in {"fetched", "book", "posting"} => attempt'[p] = attempt[p]
            /\ (pc[p] = "fetched" /\ available_fields[p] = <<>>) =>
                 pc'[p] \in {"fetched", "get", "done"} /\ request'[p] = NoRequest
         ]_vars

C2_Witness ==
    /\ script = "2hours"
    /\ pc[1] = "posting" /\ attempt[1] = 3 /\ request[1] # NoRequest
    /\ pc[2] = "fetched" /\ available_fields[2] = <<>>


\* C3: when both threads of 2hours.py have ended, success_count[0] is the
\* number of threads whose book_field returned True.
C3_NoLostIncrement ==
    (script = "2hours" /\ pc[1] = "done" /\ pc[2] = "done")
        => success_count = Cardinality({t \in Threads : success[t]})

\* p takes a step of get_available_fields
GetStepOf(p) == pc[p] = "get" /\ (pc'[p] # "get" \/ gaf_attempt'[p] # gaf_attempt[p])

Retryable(resp) == resp.kind \in {"exc", "errorcode"}

\* C4: inside one call of get_available_fields a GET that fails with a
\* request exception or a non-zero errorcode is issued again while requests
\* are left, a call never makes more than 3 retries (nor more than 3
\* requests), and the failure of the last request ends the call with the
\* empty list.
C4_RetriesBounded ==
    /\ [](\A p \in Procs : gaf_attempt[p] <= 3 /\ gets[p] <= 3
                           /\ (pc[p] = "get" => gets[p] + 1 <= 3))
    /\ [][\A p \in Procs :
            (GetStepOf(p) /\ Retryable(answer'[p])) =>
                IF gets[p] + 1 < 3
                THEN /\ pc'[p] = "get"
                     /\ gaf_attempt'[p] = gaf_attempt[p] + 1
                     /\ gets'[p] = gets[p] + 1
                ELSE /\ pc'[p] = "fetched"
                     /\ available_fields'[p] = <<>>
         ]_vars

C4_Witness ==
    \E p \in Procs : pc[p] = "fetched" /\ Retryable(answer[p]) /\ available_fields[p] = <<>>


\* p takes the step that follows the return of book_field
AfterBookStepOf(p) == pc[p] = "booked" /\ pc'[p] # "booked"

\* a GET that failed transiently is followed by another GET of the same
\* call while the call has requests left
GetRetried(p) ==
    (GetStepOf(p) /\ answer'[p].kind = "exc" /\ gets[p] + 1 < max_retries)
        => pc'[p] = "get" /\ gaf_attempt'[p] = gaf_attempt[p] + 1

\* a POST that failed transiently is followed by a new attempt
PostRetried(p) ==
    (AfterBookStepOf(p) /\ answer[p].kind = "exc" /\ attempt[p] < max_attempts)
        => pc'[p] = "get" /\ attempt'[p] = attempt[p] + 1

\* C5 as stated: in both scripts a transient failure of the GET or of the
\* POST is followed by a retry as long as the limit is not reached.
C5_RetryOnTransientFailure ==
    [][\A p \in Procs : GetRetried(p) /\ PostRetried(p)]_vars

\* C5 amended: the GET is retried in both scripts; the POST is retried (by
\* a new attempt) in 2hours.py only; in single.py a failed POST ends main
\* with the failure logged and no further request.
C5_RetryOnTransientFailure_Amended ==
    [][/\ \A p \in Procs : GetRetried(p)
       /\ \A t \in Threads : PostRetried(t)
       /\ (AfterBookStepOf(Single) /\ answer[Single].kind = "exc") =>
             /\ pc'[Single] = "done"
             /\ mainpc' = "done"
             /\ report' = "booking_failed"
             /\ request'[Single] = NoRequest
      ]_vars

C5_Witness ==
    /\ script = "2hours"
    /\ pc[1] = "booked" /\ answer[1].kind = "exc" /\ attempt[1] = 2
    /\ pc[2] = "get" /\ answer[2].kind = "exc" /\ gaf_attempt[2] = 2


\* the slot named by the POST of p that is in flight
Submitted(p) == request[p].checkdata[1]

Matches(id, time) == startswith(Slot(id).BeginTime, time)

\* C6 as stated: every submitted slot's BeginTime starts with the
\* preferred_time of the attempt.
C6_SubmittedMatchesPreferred ==
    \A p \in Procs :
        request[p] # NoRequest => startswith(Submitted(p).BeginTime, preferred_time[p])

\* C6 amended: the submitted slot's BeginTime starts with preferred_time
\* whenever the list the selection worked on holds a slot that does;
\* otherwise the submitted slot is the first slot of that list.
C6_SubmittedMatchesPreferred_Amended ==
    \A p \in Procs :
        request[p] # NoRequest =>
            /\ preferred_time[p] = preferred_time_list[p]
            /\ IF \E id \in Elements(available_fields[p]) : Matches(id, preferred_time[p])
               THEN startswith(Submitted(p).BeginTime, preferred_time[p])
               ELSE /\ Submitted(p).FieldNo = Slot(available_fields[p][1]).FieldNo
                    /\ Submitted(p).BeginTime = Slot(available_fields[p][1]).BeginTime

C6_Witness ==
    \E p \in Procs :
        /\ request[p] # NoRequest
        /\ Len(available_fields[p]) = 2
        /\ ~Matches(available_fields[p][1], preferred_time[p])
        /\ Matches(available_fields[p][2], preferred_time[p])
        /\ startswith(Submitted(p).BeginTime, preferred_time[p])

\* p receives the answer to its POST and book_field returns
BookResponseStepOf(p) == pc[p] = "posting" /\ pc'[p] # "posting"

\* p calls book_field
BookStepOf(p) == pc[p] = "book" /\ pc'[p] # "book"

IsSuccessAnswer(resp) == resp.kind = "json" /\ resp.errorcode = 0 /\ resp.message = ""

\* C7: one call of book_field sends at most one POST and never sends it
\* again; it returns True exactly when the answer to that POST is received
\* with errorcode 0 and an empty message, False for every other answer and
\* False without a POST when the slot is missing or lacks a key; it always
\* returns.
C7_BookFieldResult ==
    /\ [](\A p \in Procs :
            /\ posts[p] <= 1
            /\ (pc[p] = "booked" => (success[p] <=> IsSuccessAnswer(answer[p])))
            /\ (pc[p] = "booked" => request[p] = NoRequest /\ posts[p] = 1)
            /\ (pc[p] = "posting" => ENABLED BookResponse(p)))
    /\ [][\A p \in Procs :
            /\ BookResponseStepOf(p) =>
                 /\ pc'[p] = "booked"
                 /\ posts'[p] = posts[p]
                 /\ success'[p] = IsSuccessAnswer(answer'[p])
            /\ BookStepOf(p) =>
                 IF selected_field[p] # None /\ CheckdataKeys \subseteq DOMAIN Slot(selected_field[p])
                 THEN pc'[p] = "posting" /\ posts'[p] = posts[p] + 1
                 ELSE /\ pc'[p] \in {"get", "done"}
                      /\ success'[p] = FALSE
                      /\ request'[p] = NoRequest
                      /\ (pc'[p] = "done" => posts'[p] = posts[p])
         ]_vars

C7_Witness ==
    \E p \in Procs :
        /\ pc[p] = "booked"
        /\ answer[p] = [kind |-> "json", errorcode |-> 0, message |-> "full"]
        /\ ~success[p]


\* p takes the step that calls select_field and the call returns a slot
SelectStepOf(p) == pc[p] = "fetched" /\ pc'[p] = "book"

IsPermutation(s, t) ==
    /\ Len(s) = Len(t)
    /\ \E perm \in Perms(Len(s)) : t = [i \in 1..Len(s) |-> s[perm[i]]]

\* the slots select_field of the script of p can return for the list
SelectResults(p, list, time) ==
    IF p = Single THEN {select_field_single(list, time)}
    ELSE {select_field_2hours(list, time, perm)[2] : perm \in Perms(Len(list))}

\* C8 as stated: select_field leaves the caller's list as it is and returns
\* the same slot for the same list and preferred_time.
C8_SelectIsPure ==
    /\ [](\A p \in Procs :
            pc[p] = "fetched" =>
                Cardinality(SelectResults(p, available_fields[p], preferred_time_list[p])) = 1)
    /\ [][\A p \in Procs :
            SelectStepOf(p) => available_fields'[p] = available_fields[p]]_vars

\* C8 amended: select_field of single.py leaves the list as it is and its
\* result is a function of the list and preferred_time; select_field of
\* 2hours.py reorders the list in place (the same slots, each once) and
\* returns what the selection of single.py returns on the reordered list.
C8_SelectIsPure_Amended ==
    /\ [](pc[Single] = "fetched" =>
            Cardinality(SelectResults(Single, available_fields[Single],
                                      preferred_time_list[Single])) = 1)
    /\ [][/\ SelectStepOf(Single) =>
               /\ available_fields'[Single] = available_fields[Single]
               /\ selected_field'[Single] =
                      select_field_single(available_fields[Single], preferred_time'[Single])
          /\ \A t \in Threads :
               SelectStepOf(t) =>
                 /\ IsPermutation(available_fields[t], available_fields'[t])
                 /\ selected_field'[t] =
                        select_field_single(available_fields'[t], preferred_time[t])
         ]_vars

C8_Witness ==
    \E t \in Threads :
        /\ pc[t] = "book"
        /\ Len(available_fields[t]) = 2
        /\ selected_field[t] = available_fields[t][1]
        /\ ~Matches(selected_field[t], preferred_time[t])


\* everything process p owns
LocalView(p) ==
    <<pc[p], config[p], preferred_time[p], attempt[p], gaf_attempt[p], available_fields[p],
      selected_field[p], success[p], request[p], answer[p], loaded[p], slept[p],
      calls[p], gets[p], posts[p]>>

\* thread t takes a step
ThreadStepOf(t) == pc[t] # "unstarted" /\ LocalView(t)' # LocalView(t)

\* where a failed attempt of t leads
AfterFailure(t) ==
    IF attempt[t] < 50 THEN <<"get", attempt[t] + 1>> ELSE <<"done", attempt[t]>>

\* The positions and attempt numbers a step of thread t may lead to, from
\* what t owns, the answer t receives and the order its shuffle produces.
OwnSuccessors(t) ==
    CASE pc[t] = "ready" -> {<<"get", 1>>}
      [] pc[t] = "get" ->
            IF Retryable(answer'[t]) /\ gaf_attempt[t] < 2
            THEN {<<"get", attempt[t]>>} ELSE {<<"fetched", attempt[t]>>}
      [] pc[t] = "fetched" ->
            IF available_fields[t] = <<>> THEN {AfterFailure(t)}
            ELSE {IF slot = None THEN AfterFailure(t) ELSE <<"book", attempt[t]>> :
                     slot \in SelectResults(t, available_fields[t], preferred_time[t])}
      [] pc[t] = "book" ->
            IF book_field_request(selected_field[t], config[t]) = NoRequest
            THEN {AfterFailure(t)} ELSE {<<"posting", attempt[t]>>}
      [] pc[t] = "posting" -> {<<"booked", attempt[t]>>}
      [] pc[t] = "booked" ->
            IF success[t] THEN {<<"load", attempt[t]>>} ELSE {AfterFailure(t)}
      [] pc[t] = "load" -> {<<"store", attempt[t]>>}
      [] pc[t] = "store" -> {<<"done", attempt[t]>>}
      [] OTHER -> {}

C10_ReportIffBothBooked ==
    (script = "2hours" /\ report # "none") =>
        /\ pc[1] = "done" /\ pc[2] = "done"
        /\ report \in {"both", "not_both"}
        /\ (report = "both" <=> \A t \in Threads : success[t])


\* ---------------------------------------------------------------- C11
\* C11: in a call of get_available_fields whose requests all fail retryably
\* (request exception or non-zero errorcode) the first failure is followed
\* by a wait of retry_delay * 2^0 = 1 s and a second GET, the second by a
\* wait of retry_delay * 2^1 = 2 s and a third GET, and the third failure
\* ends the call without a wait and with the empty list: exactly 3 GETs.
\* gets[p] counts the failed requests of the call so far.
C11_ExponentialBackoff ==
    [][\A p \in Procs :
          (GetStepOf(p) /\ Retryable(answer'[p])) =>
              /\ gets[p] = gaf_attempt[p]
              /\ gets[p] \in 0..(max_retries - 1)
              /\ gets[p] = 0 =>
                    pc'[p] = "get" /\ slept'[p] = 1 /\ gets'[p] = 1
              /\ gets[p] = 1 =>
                    pc'[p] = "get" /\ slept'[p] = 2 /\ gets'[p] = 2
              /\ gets[p] < max_retries - 1 =>
                    slept'[p] = retry_delay * Pow2(gets[p])
              /\ gets[p] = max_retries - 1 =>
                    /\ pc'[p] = "fetched"
                    /\ slept'[p] = 0
                    /\ available_fields'[p] = <<>>]_vars

\* the second failure of a call has just been followed by the 2 s wait and
\* the third GET is about to be sent
C11_Witness ==
    \E p \in Procs :
        /\ pc[p] = "get"
        /\ gets[p] = 2
        /\ slept[p] = 2
        /\ Retryable(answer[p])


\* ---------------------------------------------------------------- C12
\* the items of a decoded resultdata that carry FieldState "0", in order
RECURSIVE ReportedFree(_)
ReportedFree(resultdata) ==
    IF resultdata = <<>> THEN <<>>
    ELSE LET id == Head(resultdata)
             rest == ReportedFree(Tail(resultdata))
         IN IF HasKey(id, "FieldState") /\ Slot(id).FieldState = "0"
            THEN <<id>> \o rest
            ELSE rest

AllHaveFieldState(resultdata) ==
    \A i \in 1..Len(resultdata) : HasKey(resultdata[i], "FieldState")

\* every slot held, selected or submitted by p was reported free by the
\* answer of the same attempt
SlotsWereReportedFree ==
    \A p \in Procs :
        /\ \A id \in Elements(available_fields[p]) :
              HasKey(id, "FieldState") /\ Slot(id).FieldState = "0"
        /\ pc[p] = "fetched" =>
              IF answer[p].kind = "ok"
              THEN Elements(available_fields[p]) \subseteq Elements(answer[p].resultdata)
              ELSE available_fields[p] = <<>>
        /\ selected_field[p] # None => selected_field[p] \in Elements(available_fields[p])
        /\ request[p] # NoRequest =>
              /\ selected_field[p] # None
              /\ request[p].checkdata[1].FieldNo = Slot(selected_field[p]).FieldNo

\* C12 (as stated): an answer with errorcode 0 ends the call with that
\* request, and the call returns exactly the items of the decoded resultdata
\* whose FieldState is "0", in their order; every slot selected or submitted
\* was reported with FieldState "0" in the same attempt.
C12_FilterStep ==
    /\ []SlotsWereReportedFree
    /\ [][\A p \in Procs :
             (GetStepOf(p) /\ answer'[p].kind = "ok") =>
                 /\ pc'[p] = "fetched"
                 /\ available_fields'[p] = ReportedFree(answer'[p].resultdata)]_vars

\* C12 (amended): as C12, the returned list being the filtered one when
\* every item of the resultdata has a FieldState key; when an item lacks the
\* key the call still ends with that request but returns the empty list.
C12_FilterStep_Amended ==
    /\ []SlotsWereReportedFree
    /\ [][\A p \in Procs :
             (GetStepOf(p) /\ answer'[p].kind = "ok") =>
                 /\ pc'[p] = "fetched"
                 /\ gets'[p] = 0
                 /\ available_fields'[p] =
                        IF AllHaveFieldState(answer'[p].resultdata)
                        THEN ReportedFree(answer'[p].resultdata)
                        ELSE <<>>]_vars

\* an answer listing a free and an occupied slot has just been filtered: the
\* call returned the free one alone
C12_Witness ==
    \E p \in Procs :
        /\ pc[p] = "fetched"
        /\ answer[p].kind = "ok"
        /\ Len(answer[p].resultdata) = 2
        /\ \E i \in 1..2 : Slot(answer[p].resultdata[i]).FieldState = "1"
        /\ Len(available_fields[p]) = 1


\* ---------------------------------------------------------------- C13
\* p's call of select_field ends without a slot (returns None)
SelectFailsOf(p) == pc[p] = "fetched" /\ pc'[p] \notin {"fetched", "book"}

\* C13: when select_field is called with a non-empty list of which at least
\* one slot has a BeginTime starting with preferred_time, the slot it
\* returns is such a slot of the list, in single.py the first such slot in
\* list order; it returns None for a non-empty list only when reading a key
\* of a slot raises, that is when a slot of the list lacks a key.
C13_PreferredIsReturned ==
    [][\A p \in Procs :
          /\ (/\ SelectStepOf(p)
              /\ \E id \in Elements(available_fields[p]) : Matches(id, preferred_time'[p]))
                => /\ preferred_time'[p] # <<>>
                   /\ selected_field'[p] \in Elements(available_fields[p])
                   /\ Matches(selected_field'[p], preferred_time'[p])
                   /\ p = Single =>
                         \E i \in 1..Len(available_fields[p]) :
                            /\ selected_field'[p] = available_fields[p][i]
                            /\ \A j \in 1..(i - 1) :
                                  ~Matches(available_fields[p][j], preferred_time'[p])
          /\ (SelectFailsOf(p) /\ available_fields[p] # <<>>)
                => \E id \in Elements(available_fields[p]) : ~Loggable(id)]_vars

\* single.py has selected the first of two slots that both begin at the
\* preferred time
C13_Witness ==
    /\ pc[Single] = "book"
    /\ Len(available_fields[Single]) = 2
    /\ \A i \in 1..2 : Matches(available_fields[Single][i], preferred_time[Single])
    /\ selected_field[Single] = available_fields[Single][1]


\* ---------------------------------------------------------------- C14
\* no slot of p's list begins at the preferred time of the call
NoneMatches(p) ==
    \A id \in Elements(available_fields[p]) : ~Matches(id, preferred_time'[p])

\* C14 (as stated): when no slot of the list matches the preferred time,
\* select_field returns the first element of the list as the caller passed
\* it in.
C14_FallbackIsFirstPassedIn ==
    [][\A p \in Procs :
          (SelectStepOf(p) /\ NoneMatches(p))
              => selected_field'[p] = available_fields[p][1]]_vars

\* C14 (amended): when no slot of the list matches, or no preferred time is
\* given, select_field returns the first element of the list it scans: in
\* single.py the first element of the list as passed in, in 2hours.py the
\* first element of the list after random.shuffle, which is a slot of the
\* list passed in but not always its first; it returns None instead when
\* that element lacks a key the log line reads.
C14_FallbackIsFirstScanned ==
    /\ [][\A p \in Procs :
             /\ (SelectStepOf(p) /\ NoneMatches(p))
                   => /\ selected_field'[p] = available_fields'[p][1]
                      /\ selected_field'[p] \in Elements(available_fields[p])
                      /\ p = Single => selected_field'[p] = available_fields[p][1]
             /\ (SelectFailsOf(p) /\ available_fields[p] # <<>> /\ NoneMatches(p))
                   => /\ p = Single => ~Loggable(available_fields[p][1])
                      /\ \E id \in Elements(available_fields[p]) : ~Loggable(id)]_vars
    /\ [](\A p \in Procs :
             (pc[p] = "fetched" /\ available_fields[p] # <<>>) =>
                 /\ select_field_single(available_fields[p], <<>>)
                       = IF Loggable(available_fields[p][1])
                         THEN available_fields[p][1] ELSE None
                 /\ \A perm \in Perms(Len(available_fields[p])) :
                       LET r == select_field_2hours(available_fields[p], <<>>, perm)
                       IN r[2] = IF Loggable(r[1][1]) THEN r[1][1] ELSE None)

\* single.py has fallen back to the first of two slots, neither of which
\* begins at the preferred time
C14_Witness ==
    /\ pc[Single] = "book"
    /\ Len(available_fields[Single]) = 2
    /\ \A i \in 1..2 : ~Matches(available_fields[Single][i], preferred_time[Single])
    /\ selected_field[Single] = available_fields[Single][1]


\* ---------------------------------------------------------------- C15
\* C15: booking is not exactly-once.  A POST whose answer does not reach
\* the thread (requests raises) makes book_field return False whether or
\* not the server made the booking; a thread whose book_field returned False
\* goes on to the next attempt while attempts are left, even when the server
\* already holds a booking made from one of its POSTs; nothing but an
\* observed success ends the loop before attempt 50.  So the run of
\* C15_Witness exists, in which the server has accepted two bookings from
\* one thread.
C15_NotExactlyOnce ==
    /\ [](\A p \in Procs :
            /\ accepted[p] \in 0..MaxAccepted
            /\ (success[p] /\ pc[p] \in {"booked", "load", "store", "done"})
                  => accepted[p] >= 1)
    /\ [][\A t \in Threads :
             /\ (BookResponseStepOf(t) /\ answer'[t].kind = "exc")
                   => ~success'[t] /\ pc'[t] = "booked"
             /\ (AfterBookStepOf(t) /\ ~success[t] /\ attempt[t] < max_attempts)
                   => /\ pc'[t] = "get"
                      /\ attempt'[t] = attempt[t] + 1
                      /\ accepted'[t] = accepted[t]
             /\ (pc[t] = "book" /\ pc'[t] = "posting")
                   => /\ request'[t] # NoRequest
                      /\ accepted'[t] = accepted[t]]_vars

\* book_field_thread called alone: the server accepted the POST of an
\* earlier attempt whose answer was lost, the thread went on, and the server
\* has now accepted a second POST of the same thread
C15_Witness ==
    \E t \in Threads :
        /\ script = "thread"
        /\ attempt[t] >= 2
        /\ accepted[t] = 2
        /\ pc[t] = "booked"


\* ---------------------------------------------------------------- C16
\* an answer whose handling raises json.JSONDecodeError (resultdata does
\* not decode) or another exception (an item without FieldState: KeyError)
RaisesUnexpected(resp) ==
    \/ resp.kind = "baddata"
    \/ resp.kind = "ok" /\ ~AllHaveFieldState(resp.resultdata)

\* C16: get_available_fields never raises to its caller: every request of
\* the call either leads to another request of the same call or to the
\* return of a list.  A resultdata that does not decode, or an unexpected
\* exception such as an item without FieldState, ends the call at once with
\* the empty list, whichever request of the call it was and without a wait
\* or a further GET; a request exception or non-zero errorcode is retried
\* while requests are left.
C16_ErrorsEndTheCall ==
    /\ [](\A p \in Procs : pc[p] = "get" => ENABLED GetPass(p))
    /\ [][\A p \in Procs :
             /\ GetStepOf(p) => pc'[p] \in {"get", "fetched"}
             /\ (GetStepOf(p) /\ RaisesUnexpected(answer'[p]))
                   => /\ pc'[p] = "fetched"
                      /\ available_fields'[p] = <<>>
                      /\ slept'[p] = 0
                      /\ calls'[p] = calls[p]
             /\ (GetStepOf(p) /\ Retryable(answer'[p]) /\ gets[p] < max_retries - 1)
                   => pc'[p] = "get" /\ gets'[p] = gets[p] + 1]_vars

\* a call has just returned the empty list for a resultdata with a free
\* slot and an item without FieldState
C16_Witness ==
    \E p \in Procs :
        /\ pc[p] = "fetched"
        /\ answer[p].kind = "ok"
        /\ ~AllHaveFieldState(answer[p].resultdata)
        /\ ReportedFree(answer[p].resultdata) # <<>>
        /\ available_fields[p] = <<>>


\* ---------------------------------------------------------------- C17
\* thread t is past its observed success
Succeeded(t) == pc[t] \in {"load", "store", "done"} /\ success[t]

\* t has issued no request and started no attempt in this step
NoTraffic(t) ==
    /\ request'[t] = NoRequest
    /\ calls'[t] = calls[t]
    /\ gets'[t] = gets[t]
    /\ posts'[t] = posts[t]
    /\ attempt'[t] = attempt[t]
    /\ accepted'[t] = accepted[t]

\* C17: after book_field has returned True the thread only runs
\* success_count[0] += 1, once (one read, then one write of the value read
\* plus one), and ends; it issues no further GET or POST and starts no
\* further attempt.  The increment is run by no thread that has not seen a
\* success, so success_count[0] changes only there and stays within 0..2.
C17_StopsAtFirstSuccess ==
    /\ [](success_count \in 0..Cardinality(Threads))
    /\ [](\A t \in Threads :
             /\ pc[t] \in {"load", "store"} => success[t]
             /\ Succeeded(t) => request[t] = NoRequest /\ attempt[t] \in 1..max_attempts)
    /\ [][\A t \in Threads :
             /\ (AfterBookStepOf(t) /\ success[t]) => pc'[t] = "load" /\ NoTraffic(t)
             /\ Succeeded(t) =>
                   /\ NoTraffic(t)
                   /\ success'[t]
                   /\ pc[t] = "load" => pc'[t] \in {"load", "store"}
                   /\ pc[t] = "store" => pc'[t] \in {"store", "done"}
                   /\ pc[t] = "done" => pc'[t] = "done"
             /\ (pc[t] = "load" /\ pc'[t] = "store") => loaded'[t] = success_count
             /\ (pc[t] = "store" /\ pc'[t] = "done") => success_count' = loaded[t] + 1
             /\ (pc'[t] = "load" /\ pc[t] # "load") => pc[t] = "booked" /\ success[t]
             /\ (pc'[t] = "store" /\ pc[t] # "store") => pc[t] = "load"]_vars
    /\ [][success_count' # success_count =>
             \E t \in Threads : pc[t] = "store" /\ pc'[t] = "done"]_vars

\* both threads have ended after a success, the first one on its first
\* attempt, and both increments are in the counter
C17_Witness ==
    /\ script = "2hours"
    /\ \A t \in Threads : pc[t] = "done" /\ success[t]
    /\ attempt[1] = 1
    /\ attempt[2] > 1
    /\ success_count = 2


\* ---------------------------------------------------------------- C18
\* attempt k of thread t fails in this step: empty fetch or failed
\* selection, book_field failing before its POST, or a POST whose answer
\* made book_field return False
FailStepOf(t) ==
    \/ pc[t] = "fetched" /\ pc'[t] \notin {"fetched", "book"}
    \/ pc[t] = "book" /\ pc'[t] \notin {"book", "posting"}
    \/ pc[t] = "booked" /\ ~success[t] /\ pc'[t] # "booked"

Identifies(req, id, p) ==
    /\ Len(req.checkdata) = 1
    /\ req.checkdata[1].FieldNo = Slot(id).FieldNo
    /\ req.checkdata[1].FieldTypeNo = Slot(id).FieldTypeNo
    /\ req.checkdata[1].BeginTime = Slot(id).BeginTime
    /\ req.checkdata[1].Endtime = Slot(id).EndTime
    /\ req.checkdata[1].DateAdd = dateadd
    /\ req.VenueNo = VenueNo
    /\ req.cookies = cookies_list[p]

\* C19: the checkdata of a POST has one entry, which carries FieldNo,
\* FieldTypeNo, BeginTime and EndTime of the slot select_field returned in
\* the same attempt, with the configured dateadd (7) and VenueNo ("005")
\* and the cookies of the same process; the selected slot is the same from
\* the return of select_field to the answer of the POST, and the request is
\* not changed while in flight.
C19_RequestIdentifiesSelected ==
    /\ [](\A p \in Procs :
             request[p] # NoRequest =>
                 /\ pc[p] = "posting"
                 /\ selected_field[p] \in Elements(available_fields[p])
                 /\ Identifies(request[p], selected_field[p], p)
                 /\ \A id \in SlotIds :
                       Identifies(request[p], id, p) => id = selected_field[p])
    /\ [][\A p \in Procs :
             /\ (SelectStepOf(p) \/ pc[p] = "book") /\ pc'[p] \in {"book", "posting"}
                   => /\ selected_field'[p] # None
                      /\ pc[p] = "book" => selected_field'[p] = selected_field[p]
             /\ pc[p] = "posting"
                   => /\ selected_field'[p] = selected_field[p]
                      /\ request'[p] \in {request[p], NoRequest}]_vars

\* book_field_thread called alone for the second account: the POST for the
\* slot 17:00-18:00 is in flight
C19_Witness ==
    /\ script = "thread"
    /\ pc[2] = "posting"
    /\ selected_field[2] = 2
    /\ request[2].checkdata[1].BeginTime = T1700
    /\ request[2].checkdata[1].Endtime = T1800
    /\ request[2].cookies = cookies_list[2]


\* ---------------------------------------------------------------- C20
\* the positions single.py's main may go to from its position
SingleSuccessors ==
    CASE pc[Single] = "unstarted" -> {"unstarted", "get"}
      [] pc[Single] = "get" -> {"get", "fetched"}
      [] pc[Single] = "fetched" -> {"fetched", "book", "done"}
      [] pc[Single] = "book" -> {"book", "posting", "done"}
      [] pc[Single] = "posting" -> {"posting", "booked"}
      [] pc[Single] = "booked" -> {"booked", "done"}
      [] OTHER -> {"done"}

\* main of single.py has reached the POST of book_field: the POST is in
\* flight or answered, or main has ended after a book_field call whose slot
\* had every key the request needs
SinglePosted ==
    \/ pc[Single] \in {"posting", "booked"}
    \/ /\ pc[Single] = "done"
       /\ report \in {"finished", "booking_failed"}
       /\ book_field_request(selected_field[Single], config[Single]) # NoRequest

\* C20: a run of single.py makes one booking attempt: one call of
\* get_available_fields with at most 3 GET requests, then at most one call
\* of select_field, then at most one call of book_field with at most one
\* POST; main never goes back to an earlier step, and after an empty fetch
\* it ends at once without a POST.
C20_SingleAttempt ==
    /\ [](script = "single" =>
             /\ calls[Single] <= 1
             /\ gets[Single] <= max_retries - 1
             /\ posts[Single] <= 1
             /\ accepted[Single] <= 1
             /\ attempt[Single] = 0
             /\ (posts[Single] = 1) = SinglePosted
             /\ report = "no_fields" =>
                   /\ pc[Single] = "done"
                   /\ posts[Single] = 0
                   /\ accepted[Single] = 0
                   /\ selected_field[Single] = None
             /\ \A t \in Threads : pc[t] = "unstarted")
    /\ [][script = "single" =>
             /\ pc'[Single] \in SingleSuccessors
             /\ calls'[Single] > calls[Single] => pc[Single] = "unstarted"
             /\ posts'[Single] > posts[Single] => pc[Single] = "book"
             /\ (pc[Single] = "fetched" /\ available_fields[Single] = <<>>
                    /\ pc'[Single] # "fetched")
                   => /\ pc'[Single] = "done"
                      /\ report' = "no_fields"
                      /\ request'[Single] = NoRequest]_vars

\* single.py has ended after an empty fetch: one call of
\* get_available_fields, no selection and no POST
C20_Witness ==
    /\ script = "single"
    /\ pc[Single] = "done"
    /\ report = "no_fields"
    /\ answer[Single] = NoAnswer
    /\ calls[Single] = 1
    /\ posts[Single] = 0

====
